---- MODULE Spec2Model ----
(***************************************************************************)
(* Model of cloud/softlayer/sl_metal.py: one invocation of main(), the     *)
(* SL_data catalogue wrapper with its memoised item fetches, the Order     *)
(* builder, and the remote SoftLayer calls the invocation issues.          *)
(*                                                                         *)
(* Representation of Python values:                                        *)
(*   - a list is a sequence;                                               *)
(*   - a dict is a sequence of entries [k |-> key, v |-> value] with       *)
(*     pairwise distinct keys, in insertion order;                         *)
(*   - a value that may be None is NoneV or Some(v);                       *)
(*   - a dict record of the SoftLayer API (item, category, price) is a     *)
(*     TLA+ record with the API's field names.                             *)
(***************************************************************************)
EXTENDS Integers, Sequences, FiniteSets, TLC

(***************************************************************************)
(* Bounds of the model.                                                    *)
(***************************************************************************)
MaxStdItems == 3   \* length of the standard item list the remote returns
MaxLocItems == 3   \* length of the location item list the remote returns
MaxOpts == 2       \* number of package options the caller supplies
MaxHardware == 2   \* number of hardware records list_hardware returns
MaxLocations == 2  \* number of records the Location lookup returns

(***************************************************************************)
(* Python values.                                                          *)
(***************************************************************************)
NoneV == [some |-> FALSE]
Some(v) == [some |-> TRUE, val |-> v]

\* Python truthiness of a value that is None or a list.
Truthy(o) == o.some /\ o.val # <<>>

RECURSIVE Flatten(_)
Flatten(ss) == IF ss = <<>> THEN <<>> ELSE Head(ss) \o Flatten(Tail(ss))

DictHas(d, k) == \E i \in 1..Len(d) : d[i].k = k
DictIndex(d, k) == CHOOSE i \in 1..Len(d) : d[i].k = k
\* d[k]
DictVal(d, k) == d[DictIndex(d, k)].v
\* d.get(k)
DictGet(d, k) == IF DictHas(d, k) THEN Some(DictVal(d, k)) ELSE NoneV
\* d[k] = v : an existing key keeps its place, a new key is appended
DictPut(d, k, v) ==
    IF DictHas(d, k)
    THEN [d EXCEPT ![DictIndex(d, k)] = [k |-> k, v |-> v]]
    ELSE Append(d, [k |-> k, v |-> v])
\* dict(pairs) : later pairs win
RECURSIVE DictFrom(_)
DictFrom(pairs) ==
    IF pairs = <<>> THEN <<>>
    ELSE LET n == Len(pairs)
         IN DictPut(DictFrom(SubSeq(pairs, 1, n - 1)), pairs[n].k, pairs[n].v)
\* d.update(e)
RECURSIVE DictUpdate(_, _)
DictUpdate(d, e) ==
    IF e = <<>> THEN d
    ELSE DictUpdate(DictPut(d, Head(e).k, Head(e).v), Tail(e))
\* The orders in which a dict of n entries can be walked.  The program runs
\* under Python 2 (itervalues, line 714), where a dict is walked in hash
\* table order: the order depends on the hashes of the keys and on how the
\* dict was filled, not on the order the entries were written in.
IterOrders(n) == {p \in [1..n -> 1..n] : \A i, j \in 1..n : p[i] = p[j] => i = j}
\* d.keys(): the lists it can return
DictKeys(d) == {[i \in 1..Len(d) |-> d[p[i]].k] : p \in IterOrders(Len(d))}
\* d.values(), d.itervalues(): the lists it can yield
DictValues(d) == {[i \in 1..Len(d) |-> d[p[i]].v] : p \in IterOrders(Len(d))}
KeySet(d) == {d[i].k : i \in 1..Len(d)}

(***************************************************************************)
(* The remote catalogue: what the SoftLayer API can answer.                *)
(***************************************************************************)
Price(id) == [id |-> id]
Item(id, keyName, catId, prices) ==
    [id |-> id, keyName |-> keyName, itemCategory |-> [id |-> catId], prices |-> prices]
Category(isRequired, id, name, code) ==
    [isRequired |-> isRequired,
     itemCategory |-> [id |-> id, name |-> name, categoryCode |-> code]]

\* Items whose prices have no location group.
StdPool ==
    << Item(1, "RAM_64_GB", 3, <<Price(100)>>),
       Item(2, "HARD_DRIVE_1_00_TB", 4, <<>>),
       Item(3, "HARD_DRIVE_2_00_TB", 5, <<Price(300)>>),
       Item(4, "RAM_128_GB", 3, <<Price(400), Price(401)>>) >>
\* Items priced for the price groups of the datacenter.
LocPool ==
    << Item(1, "RAM_64_GB", 3, <<Price(101), Price(102)>>),
       Item(3, "HARD_DRIVE_2_00_TB", 4, <<Price(301)>>),
       Item(9, "SSD_LOCAL_ONLY", 4, <<Price(900)>>),
       Item(2, "HARD_DRIVE_1_00_TB", 4, <<Price(201)>>) >>

CatRam == Category(1, 3, "RAM", "ram")
CatDisk0 == Category(0, 4, "First Hard Drive", "disk0")
CatDisk1 == Category(0, 5, "Second Hard Drive", "disk1")
CatManaged == Category(0, 6, "Managed Resource", "managed_resource")
\* Package configurations: with and without a disk0 category.
Configurations ==
    { <<CatRam, CatDisk0, CatDisk1, CatManaged>>,
      <<CatRam, CatDisk1, CatManaged>> }

\* getDatacenters(mask='name,id') as the dict SL_data.__init__ builds from it.
Datacenters == << [k |-> "fra02", v |-> 449506], [k |-> "wdc01", v |-> 37473] >>
\* priceGroups of a datacenter the API knows.
PriceGroups == << [id |-> 503], [id |-> 507] >>

Prefixes(pool, n) ==
    {SubSeq(pool, 1, m) : m \in 0..(IF n < Len(pool) THEN n ELSE Len(pool))}

(***************************************************************************)
(* Program state.                                                          *)
(***************************************************************************)
VARIABLES
    args,        \* _load_params(): the caller's parameters
    check_mode,  \* module.check_mode
    remote,      \* what the remote API answers during this invocation
    pc,          \* position of main()
    sld,         \* the SL_data object of main(): dcenters and memo attributes
    order_sld,   \* the SL_data object of Order.getProductOrder
    items_by_id, \* the items get_item_categories resolved (line 710)
    item_cats,   \* main's item_cats
    package_spec,\* main's package_spec
    params,      \* module.params restricted to the package options
    hws,         \* main's hws: what list_hardware returned
    location_answer, \* getLocationId's locations: what Location.getDataCenters returned
    calls,       \* remote calls issued so far, in order
    result       \* how the invocation ended

vars == <<args, check_mode, remote, pc, sld, order_sld, items_by_id, item_cats,
          package_spec, params, hws, location_answer, calls, result>>

Call(api, key) == [api |-> api, key |-> key]

(***************************************************************************)
(* class SL_data.  A method that calls the remote API or touches the memo  *)
(* attributes takes the object-and-call-log c = [self, calls] and returns  *)
(* [c |-> the updated pair, ret |-> the return value].                     *)
(***************************************************************************)
NewSLD == [dcenters |-> <<>>, std |-> <<>>, loc |-> <<>>]

\* SL_data.__init__
SL_data_init(log) ==
    [self |-> [dcenters |-> Datacenters, std |-> <<>>, loc |-> <<>>],
     calls |-> Append(log, Call("getDatacenters", <<>>))]

\* SL_data.get_categories
get_categories(c, package_id) ==
    [c |-> [c EXCEPT !.calls = Append(@, Call("getConfiguration", <<package_id>>))],
     ret |-> remote.cats]

\* SL_data.get_pricegroups
get_pricegroups(c, dcenter) ==
    IF ~DictHas(c.self.dcenters, dcenter)
    THEN [c |-> c, ret |-> 1]
    ELSE LET data == <<[priceGroups |-> PriceGroups]>>
             log == Append(c.calls, Call("getDatacenters.priceGroups", <<dcenter>>))
         IN [c |-> [c EXCEPT !.calls = log],
             ret |-> IF Len(data) > 0
                     THEN [i \in 1..Len(data[1].priceGroups) |-> data[1].priceGroups[i].id]
                     ELSE <<>>]

\* SL_data.get_standard_items
get_standard_items(c, package_id) ==
    IF DictHas(c.self.std, package_id)
    THEN [c |-> c, ret |-> DictVal(c.self.std, package_id)]
    ELSE LET standard_items == remote.standard_items
         IN [c |-> [self |-> [c.self EXCEPT !.std = DictPut(@, package_id, standard_items)],
                    calls |-> Append(c.calls, Call("getItems.standard", <<package_id>>))],
             ret |-> standard_items]

\* SL_data.get_location_items
get_location_items(c, package_id, dcenter) ==
    IF DictHas(c.self.loc, <<package_id, dcenter>>)
    THEN [c |-> c, ret |-> DictVal(c.self.loc, <<package_id, dcenter>>)]
    ELSE LET pg == get_pricegroups(c, dcenter)
             location_items == remote.location_items
         IN [c |-> [self |-> [pg.c.self EXCEPT
                                 !.loc = DictPut(@, <<package_id, dcenter>>, location_items)],
                    calls |-> Append(pg.c.calls,
                                     Call("getItems.location", <<package_id, dcenter>>))],
             ret |-> location_items]

\* merge_items that copies only the prices of a location item into the
\* standard item instead of replacing the record.
merge_items_prices_only(key, standard_items, location_items) ==
    DictFrom([i \in 1..Len(standard_items) |->
        LET s == standard_items[i]
            hit == SelectSeq(location_items, LAMBDA l : l[key] = s[key])
        IN [k |-> s[key],
            v |-> IF hit = <<>> THEN s ELSE [s EXCEPT !.prices = hit[Len(hit)].prices]]])

\* The dict SL_data.get_items builds from the two lists: the standard items
\* under their key, then every location item that shares its key with a
\* standard item written over it.
merge_items(key, standard_items, location_items) ==
    LET item_dict == DictFrom([i \in 1..Len(standard_items) |->
                                  [k |-> standard_items[i][key], v |-> standard_items[i]]])
        loc_dict == DictFrom(Flatten(
            [j \in 1..Len(location_items) |->
                LET l == location_items[j]
                    hit == SelectSeq(standard_items, LAMBDA s : s[key] = l[key])
                IN [i \in 1..Len(hit) |-> [k |-> hit[i][key], v |-> l]]]))
    IN DictUpdate(item_dict, loc_dict)

\* SL_data.get_items
get_items(c, key, package_id, dcenter) ==
    LET std == get_standard_items(c, package_id)
        loc == get_location_items(std.c, package_id, dcenter)
    IN [c |-> loc.c, ret |-> merge_items(key, std.ret, loc.ret)]

\* SL_data.get_item
get_item(c, name, package_id, dcenter) ==
    LET items == get_items(c, "keyName", package_id, dcenter)
    IN [c |-> items.c, ret |-> DictGet(items.ret, name)]

\* priceid_of that takes the last price of the item instead of the first.
priceid_of_last(item) ==
    IF ~item.some THEN NoneV
    ELSE IF Len(item.val.prices) > 0 THEN Some(item.val.prices[Len(item.val.prices)].id)
    ELSE NoneV

\* The price id SL_data.get_item_priceid reads off the item get_item returned.
priceid_of(item) ==
    IF ~item.some THEN NoneV
    ELSE IF Len(item.val.prices) > 0 THEN Some(item.val.prices[1].id)
    ELSE NoneV

\* SL_data.get_item_priceid
get_item_priceid(c, name, package_id, dcenter) ==
    LET item == get_item(c, name, package_id, dcenter)
    IN [c |-> item.c, ret |-> priceid_of(item.ret)]

Digits == {"0", "1", "2", "3", "4", "5", "6", "7", "8", "9"}
\* re.match('disk[0-9]+', k): k starts with "disk" and a digit
IsDiskSlot(k) ==
    /\ Len(k) >= 5
    /\ SubSeq(k, 1, 4) = "disk"
    /\ SubSeq(k, 5, 5) \in Digits

\* categories_of without the disk-slot rewrite.
categories_of_unmassaged(cats, items) ==
    {DictFrom(
         [n \in 1..Len(cats) |->
             LET mine == SelectSeq(vals,
                            LAMBDA i : i.itemCategory.id = cats[n].itemCategory.id)
             IN [k |-> cats[n].itemCategory.categoryCode,
                 v |-> Some([m \in 1..Len(mine) |-> mine[m].keyName])]])
     : vals \in DictValues(items)}

\* The dicts SL_data.get_item_categories can build from the categories and
\* the resolved items, one for each order items.itervalues() can yield the
\* items in: the keyNames of each category's items in that order, then the
\* disk0 list written over every disk slot.
categories_of(cats, items) ==
    {LET item_cats0 == DictFrom(
             [n \in 1..Len(cats) |->
                 LET mine == SelectSeq(vals,
                                LAMBDA i : i.itemCategory.id = cats[n].itemCategory.id)
                 IN [k |-> cats[n].itemCategory.categoryCode,
                     v |-> Some([m \in 1..Len(mine) |-> mine[m].keyName])]])
         disk_opts == IF DictHas(item_cats0, "disk0") THEN DictVal(item_cats0, "disk0") ELSE NoneV
     IN [n \in 1..Len(item_cats0) |->
            IF IsDiskSlot(item_cats0[n].k)
            THEN [k |-> item_cats0[n].k, v |-> disk_opts]
            ELSE item_cats0[n]]
     : vals \in DictValues(items)}

\* SL_data.get_item_categories; rets is the set of dicts it can return.
get_item_categories(c, package_id, dcenter) ==
    LET cats == get_categories(c, package_id)
        items == get_items(cats.c, "id", package_id, dcenter)
    IN [c |-> items.c, items |-> items.ret, rets |-> categories_of(cats.ret, items.ret)]

(***************************************************************************)
(* main(), before the module object exists.                                *)
(***************************************************************************)
\* item_cats.get(code)
item_cats_get(cats_dict, code) ==
    IF DictHas(cats_dict, code) THEN DictVal(cats_dict, code) ELSE NoneV

\* required_of that keeps the catalogue's flag in every state.
required_of_catalogue(state, c) == c.isRequired

\* 'required' of a package option: the catalogue's flag for present and
\* options, 0 for every other state.
required_of(state, c) ==
    IF state = "present" \/ state = "options" THEN c.isRequired ELSE 0

\* main's package_spec: one entry per category whose choice list is truthy.
package_spec_of(state, cats, cats_dict) ==
    LET kept == SelectSeq(cats,
                    LAMBDA c : Truthy(item_cats_get(cats_dict, c.itemCategory.categoryCode)))
    IN DictFrom([n \in 1..Len(kept) |->
           [k |-> kept[n].itemCategory.categoryCode,
            v |-> [required |-> required_of(state, kept[n]),
                   choices |-> item_cats_get(cats_dict,
                                             kept[n].itemCategory.categoryCode).val]]])

InSeq(x, s) == \E i \in 1..Len(s) : s[i] = x

\* check_arguments that lets parameters outside the spec through.
check_arguments_lenient(spec, a, dcenters) ==
    IF \E n \in 1..Len(spec) : spec[n].v.required # 0 /\ ~DictHas(a.opts, spec[n].k)
    THEN "missing required arguments"
    ELSE IF \/ ~DictHas(dcenters, a.datacenter)
            \/ \E n \in 1..Len(a.opts) :
                   /\ DictHas(spec, a.opts[n].k)
                   /\ ~InSeq(a.opts[n].v, DictVal(spec, a.opts[n].k).choices)
    THEN "value must be one of the choices"
    ELSE "ok"

\* AnsibleModule(argument_spec=arg_spec): "ok", or the reason fail_json is
\* called with.  The static parameters other than datacenter are always
\* supplied and well formed here.
check_arguments(spec, a, dcenters) ==
    IF \E k \in KeySet(a.opts) : ~DictHas(spec, k)
    THEN "unsupported parameter"
    ELSE IF \E n \in 1..Len(spec) : spec[n].v.required # 0 /\ ~DictHas(a.opts, spec[n].k)
    THEN "missing required arguments"
    ELSE IF \/ \E choices \in DictKeys(dcenters) : ~InSeq(a.datacenter, choices)
            \/ \E n \in 1..Len(a.opts) :
                   ~InSeq(a.opts[n].v, DictVal(spec, a.opts[n].k).choices)
    THEN "value must be one of the choices"
    ELSE "ok"

\* module.params without the standard parameters: every package option of
\* the spec, None when the caller did not supply it.
module_params(spec, a) ==
    [n \in 1..Len(spec) |-> [k |-> spec[n].k, v |-> DictGet(a.opts, spec[n].k)]]

(***************************************************************************)
(* class Order.                                                            *)
(***************************************************************************)
\* Order.__init__: the lists self.item_values can be, one for each order the
\* comprehension can walk module.params in.
item_values(p) == DictValues(p)

\* getLocationId that takes the first match when there are several.
getLocationId_first(c, location, locations) ==
    [c |-> [c EXCEPT !.calls = Append(@, Call("getDataCenters", <<location>>))],
     ret |-> IF Len(locations) = 0 THEN NoneV ELSE Some(locations[1].id)]

\* Order.getLocationId; locations is what Location.getDataCenters answers.
getLocationId(c, location, locations) ==
    [c |-> [c EXCEPT !.calls = Append(@, Call("getDataCenters", <<location>>))],
     ret |-> IF Len(locations) # 1 THEN NoneV ELSE Some(locations[1].id)]

\* The prices comprehension of Order.getProductOrder: one entry per item
\* value that is not None.
RECURSIVE prices_of(_, _, _, _)
prices_of(c, values, package_id, dcenter) ==
    IF values = <<>> THEN [c |-> c, ret |-> <<>>]
    ELSE IF ~Head(values).some THEN prices_of(c, Tail(values), package_id, dcenter)
    ELSE LET x == Head(values).val
             pid == get_item_priceid(c, x, package_id, dcenter)
             rest == prices_of(pid.c, Tail(values), package_id, dcenter)
         IN [c |-> rest.c, ret |-> <<[id |-> pid.ret, name |-> x]>> \o rest.ret]

\* Order.getProductOrder: the outcomes it can have, one for each list
\* self.item_values can be; an outcome is the order it returns and the
\* SL_data object it made.
getProductOrder(log, a, p, locations) ==
    {LET c0 == SL_data_init(log)
         prices == prices_of(c0, values, a.pkgid, a.datacenter)
         loc == getLocationId(prices.c, a.datacenter, locations)
     IN [c |-> loc.c,
         ret |-> [quantity |-> 1,
                  hardware |-> <<[hostname |-> a.hostname, domain |-> a.domain]>>,
                  location |-> loc.ret,
                  useHourlyPricing |-> FALSE,
                  packageId |-> a.pkgid,
                  prices |-> prices.ret,
                  sshKeys |-> <<a.sshKeys>>]]
     : values \in item_values(p)}

(***************************************************************************)
(* The inputs of one invocation.                                           *)
(***************************************************************************)
States == {"present", "absent", "reloaded", "options"}

\* Package options a caller may supply: valid ones, a key no category has
\* ("bogus"), the key of a category without items, a value that is no choice.
OptCandidates ==
    << [k |-> "ram", v |-> "RAM_64_GB"],
       [k |-> "disk0", v |-> "HARD_DRIVE_1_00_TB"],
       [k |-> "disk1", v |-> "HARD_DRIVE_2_00_TB"],
       [k |-> "bogus", v |-> "ANYTHING"],
       [k |-> "managed_resource", v |-> "ANYTHING"],
       [k |-> "ram", v |-> "RAM_1_TB"] >>

RECURSIVE PickSeq(_)
PickSeq(S) ==
    IF S = {} THEN <<>>
    ELSE LET m == CHOOSE x \in S : \A y \in S : x <= y
         IN <<OptCandidates[m]>> \o PickSeq(S \ {m})

OptChoices ==
    {PickSeq(S) : S \in {T \in SUBSET (1..Len(OptCandidates)) :
                            /\ Cardinality(T) <= MaxOpts
                            /\ \A i, j \in T : i # j => OptCandidates[i].k # OptCandidates[j].k}}

\* list_hardware answers with n records that match the triple.
Hardware(n, a) ==
    [i \in 1..n |-> [id |-> 1000 + i, hostname |-> a.hostname, domain |-> a.domain]]
\* Location.getDataCenters answers with n records.
Locations(n) == [i \in 1..n |-> [id |-> 449505 + i, name |-> "fra02"]]

Init ==
    /\ args \in [state : States,
                 hostname : {"myserver"},
                 domain : {"bestdomainevah.com"},
                 datacenter : {"fra02", "ams99"},
                 pkgid : {253},
                 sshKeys : {Some(<<"key1">>)},
                 opts : OptChoices]
    /\ check_mode \in BOOLEAN
    /\ \E cats \in Configurations,
          std \in Prefixes(StdPool, MaxStdItems),
          loc \in Prefixes(LocPool, MaxLocItems) :
            remote = [cats |-> cats, standard_items |-> std, location_items |-> loc]
    /\ pc = "start"
    /\ sld = NewSLD
    /\ order_sld = NewSLD
    /\ items_by_id = <<>>
    /\ item_cats = <<>>
    /\ package_spec = <<>>
    /\ params = <<>>
    /\ hws = <<>>
    /\ location_answer = <<>>
    /\ calls = <<>>
    /\ result = [verdict |-> "running"]

(***************************************************************************)
(* main().                                                                 *)
(***************************************************************************)
\* Lines 794-838: the client, SL_data, item_cats, cats and package_spec.
build_arg_spec ==
    /\ pc = "start"
    /\ LET c0 == SL_data_init(calls)
           ic == get_item_categories(c0, args.pkgid, args.datacenter)
           cs == get_categories(ic.c, args.pkgid)
       IN /\ sld' = cs.c.self
          /\ calls' = cs.c.calls
          /\ items_by_id' = ic.items
          /\ \E cats_dict \in ic.rets :
               /\ item_cats' = cats_dict
               /\ package_spec' = package_spec_of(args.state, cs.ret, cats_dict)
    /\ pc' = "arg_spec"
    /\ UNCHANGED <<args, check_mode, remote, order_sld, params, hws, location_answer, result>>

\* Lines 840-843: state 'options' writes the spec and exits.  Of arg_spec the
\* result keeps the package options; the static entries are the same in every run.
emit_options ==
    /\ pc = "arg_spec"
    /\ args.state = "options"
    /\ result' = [verdict |-> "options", arg_spec |-> package_spec]
    /\ pc' = "exit"
    /\ UNCHANGED <<args, check_mode, remote, sld, order_sld, items_by_id, item_cats,
                   package_spec, params, hws, location_answer, calls>>

\* create_module without the exit of state 'options' before it.
create_module_every_state ==
    /\ pc = "arg_spec"
    /\ LET v == check_arguments(package_spec, args, sld.dcenters)
       IN IF v = "ok"
          THEN /\ params' = module_params(package_spec, args)
               /\ pc' = "module"
               /\ UNCHANGED result
          ELSE /\ result' = [verdict |-> "failed", msg |-> v]
               /\ pc' = "exit"
               /\ UNCHANGED params
    /\ UNCHANGED <<args, check_mode, remote, sld, order_sld, items_by_id, item_cats,
                   package_spec, hws, location_answer, calls>>

\* create_module that accepts the parameters without validating them.
create_module_unchecked ==
    /\ pc = "arg_spec"
    /\ args.state # "options"
    /\ params' = module_params(package_spec, args)
    /\ pc' = "module"
    /\ UNCHANGED <<args, check_mode, remote, sld, order_sld, items_by_id, item_cats,
                   package_spec, hws, location_answer, calls, result>>

\* Lines 845-850: AnsibleModule validates the parameters, or fails the run.
create_module ==
    /\ pc = "arg_spec"
    /\ args.state # "options"
    /\ LET v == check_arguments(package_spec, args, sld.dcenters)
       IN IF v = "ok"
          THEN /\ params' = module_params(package_spec, args)
               /\ pc' = "module"
               /\ UNCHANGED result
          ELSE /\ result' = [verdict |-> "failed", msg |-> v]
               /\ pc' = "exit"
               /\ UNCHANGED params
    /\ UNCHANGED <<args, check_mode, remote, sld, order_sld, items_by_id, item_cats,
                   package_spec, hws, location_answer, calls>>

\* Lines 852-858: the existing hardware of the triple.
list_hardware ==
    /\ pc = "module"
    /\ calls' = Append(calls, Call("list_hardware",
                                   <<args.hostname, args.domain, args.datacenter>>))
    /\ \E n \in 0..MaxHardware : hws' = Hardware(n, args)
    /\ pc' = "hws"
    /\ UNCHANGED <<args, check_mode, remote, sld, order_sld, items_by_id, item_cats,
                   package_spec, params, location_answer, result>>

\* found with "exactly one record" in place of "at least one".
found_single(h) == Len(h) = 1

\* "if hws:" : the lookup returned at least one record.
found(h) == h # <<>>

\* order_api with the check-mode branch lost: the order is always placed.
order_api_always_place(check) == "placeOrder"

\* The Product_Order method main calls for a new server.
order_api(check) == IF check THEN "verifyOrder" ELSE "placeOrder"

\* What the Product_Order service answers to an order.
order_response(api, productOrder) == [answered |-> api, order |-> productOrder]

\* Lines 863-864: state 'present', the server exists.
present_exists ==
    /\ pc = "hws"
    /\ args.state = "present"
    /\ found(hws)
    /\ result' = [verdict |-> "unchanged"]
    /\ pc' = "exit"
    /\ UNCHANGED <<args, check_mode, remote, sld, order_sld, items_by_id, item_cats,
                   package_spec, params, hws, location_answer, calls>>

\* Lines 866-871: state 'present', no such server: verify or place the order.
present_order ==
    /\ pc = "hws"
    /\ args.state = "present"
    /\ ~found(hws)
    /\ \E n \in 0..MaxLocations :
       \E po \in getProductOrder(calls, args, params, Locations(n)) :
         LET api == order_api(check_mode)
         IN /\ location_answer' = Locations(n)
            /\ order_sld' = po.c.self
            /\ calls' = Append(po.c.calls, Call(api, <<po.ret>>))
            /\ result' = [verdict |-> "changed", order |-> order_response(api, po.ret)]
    /\ pc' = "exit"
    /\ UNCHANGED <<args, check_mode, remote, sld, items_by_id, item_cats,
                   package_spec, params, hws>>

\* Lines 874-876: state 'absent', the server exists.  The cancel call is
\* commented out and the exit_json argument reads the undefined name hws0,
\* which raises NameError before exit_json is called.
absent_exists ==
    /\ pc = "hws"
    /\ args.state = "absent"
    /\ found(hws)
    /\ result' = [verdict |-> "error", exception |-> "NameError: hws0"]
    /\ pc' = "exit"
    /\ UNCHANGED <<args, check_mode, remote, sld, order_sld, items_by_id, item_cats,
                   package_spec, params, hws, location_answer, calls>>

\* Lines 877-878: state 'absent', no such server.
absent_missing ==
    /\ pc = "hws"
    /\ args.state = "absent"
    /\ ~found(hws)
    /\ result' = [verdict |-> "unchanged"]
    /\ pc' = "exit"
    /\ UNCHANGED <<args, check_mode, remote, sld, order_sld, items_by_id, item_cats,
                   package_spec, params, hws, location_answer, calls>>

\* reload_args with the ssh keys dropped.
reload_args_no_keys(h, a) == <<h[1].id, NoneV>>

\* The arguments of mgr.reload.
reload_args(h, a) == <<h[1].id, a.sshKeys>>

\* Lines 881-883: state 'reloaded', the server exists.
reloaded_exists ==
    /\ pc = "hws"
    /\ args.state = "reloaded"
    /\ found(hws)
    /\ calls' = Append(calls, Call("reload", reload_args(hws, args)))
    /\ result' = [verdict |-> "changed"]
    /\ pc' = "exit"
    /\ UNCHANGED <<args, check_mode, remote, sld, order_sld, items_by_id, item_cats,
                   package_spec, params, hws, location_answer>>

\* The message of lines 885-889.
not_found_msg(a) == a.hostname \o "." \o a.domain \o " in " \o a.datacenter \o " not found"

\* Lines 884-889: state 'reloaded', no such server.
reloaded_missing ==
    /\ pc = "hws"
    /\ args.state = "reloaded"
    /\ ~found(hws)
    /\ result' = [verdict |-> "failed", msg |-> not_found_msg(args)]
    /\ pc' = "exit"
    /\ UNCHANGED <<args, check_mode, remote, sld, order_sld, items_by_id, item_cats,
                   package_spec, params, hws, location_answer, calls>>

Next ==
    \/ build_arg_spec
    \/ emit_options
    \/ create_module
    \/ list_hardware
    \/ present_exists
    \/ present_order
    \/ absent_exists
    \/ absent_missing
    \/ reloaded_exists
    \/ reloaded_missing

Spec == Init /\ [][Next]_vars

(***************************************************************************)
(* Properties.                                                             *)
(***************************************************************************)
CallsOf(apis) == {i \in 1..Len(calls) : calls[i].api \in apis}
Count(apis) == Cardinality(CallsOf(apis))
OrderApis == {"verifyOrder", "placeOrder"}
MutationApis == {"placeOrder", "cancel_hardware", "reload"}
LifecycleApis == {"cancel_hardware", "reload"}
\* list_hardware has answered.
LookedUp == Count({"list_hardware"}) = 1
Ended == pc = "exit"

\* C1: state 'present', the lookup finds nothing (validation has passed):
\* the run ends changed with exactly one order call, verifyOrder in check
\* mode and placeOrder otherwise, never both, issued on the built order and
\* with that call's response in the result; no order call comes earlier.
C1_PresentOrdersOnce ==
    (args.state = "present" /\ LookedUp /\ hws = <<>>) =>
        /\ ~Ended => Count(OrderApis) = 0
        /\ Ended =>
            LET mine == IF check_mode THEN "verifyOrder" ELSE "placeOrder"
                other == IF check_mode THEN "placeOrder" ELSE "verifyOrder"
                last == calls[Len(calls)]
            IN /\ Count({mine}) = 1
               /\ Count({other}) = 0
               /\ last.api = mine
               /\ last.key[1].hardware[1].hostname = args.hostname
               /\ last.key[1].packageId = args.pkgid
               /\ result.verdict = "changed"
               /\ result.order = [answered |-> mine, order |-> last.key[1]]

\* C1 witness: a dry run of 'present' with one priced option ended changed
\* after verifyOrder.
C1_Witness ==
    /\ Ended /\ args.state = "present" /\ LookedUp /\ hws = <<>> /\ check_mode
    /\ result.verdict = "changed"
    /\ result.order.answered = "verifyOrder"
    /\ Len(result.order.order.prices) = 1

\* C2: state 'present', the lookup returns one or more records: the run ends
\* unchanged and no order is built, verified or placed, for one record as
\* for several.
C2_PresentExistsUnchanged ==
    (args.state = "present" /\ LookedUp /\ Len(hws) >= 1) =>
        /\ Count(OrderApis \cup {"getDataCenters"}) = 0
        /\ order_sld = NewSLD
        /\ Ended => result.verdict = "unchanged"
        /\ pc \in {"hws", "exit"}

\* C2 witness: 'present' ended unchanged with two matching records.
C2_Witness ==
    /\ Ended /\ args.state = "present" /\ LookedUp /\ Len(hws) = 2
    /\ result.verdict = "unchanged"

\* C3: state 'absent': with matching hardware the cancellation is invoked
\* and the run ends changed; without, it ends unchanged and no lifecycle
\* action is invoked.
C3_AbsentCancels ==
    (Ended /\ args.state = "absent" /\ LookedUp) =>
        IF Len(hws) >= 1
        THEN Count({"cancel_hardware"}) = 1 /\ result.verdict = "changed"
        ELSE Count(LifecycleApis) = 0 /\ result.verdict = "unchanged"

\* C4: state 'reloaded': with matching hardware, reload is invoked once on
\* an existing record with the supplied ssh keys and the run ends changed;
\* without, the run fails with '<hostname>.<domain> in <datacenter> not
\* found' and issues no reload, cancel or order call.
C4_Reloaded ==
    (args.state = "reloaded" /\ LookedUp) =>
        /\ Count(OrderApis \cup {"cancel_hardware"}) = 0
        /\ ~Ended => Count({"reload"}) = 0
        /\ Ended =>
            IF Len(hws) >= 1
            THEN /\ Count({"reload"}) = 1
                 /\ LET r == calls[Len(calls)]
                    IN /\ r.api = "reload"
                       /\ r.key[1] \in {hws[i].id : i \in 1..Len(hws)}
                       /\ r.key[2] = args.sshKeys
                 /\ result.verdict = "changed"
            ELSE /\ Count({"reload"}) = 0
                 /\ result = [verdict |-> "failed",
                              msg |-> "myserver.bestdomainevah.com in fra02 not found"]

\* C4 witness: 'reloaded' ended changed after one reload of an existing
\* record.
C4_Witness ==
    /\ Ended /\ args.state = "reloaded" /\ LookedUp /\ Len(hws) >= 1
    /\ Count({"reload"}) = 1
    /\ result.verdict = "changed"

\* C5: state 'options': the run emits the synthesized schema and ends; at
\* no point is the desired state validated, the hardware looked up, or a
\* verify, place, cancel or reload call issued.
C5_OptionsOnlyEmits ==
    args.state = "options" =>
        /\ pc \in {"start", "arg_spec", "exit"}
        /\ Count(OrderApis \cup LifecycleApis \cup {"list_hardware"}) = 0
        /\ params = <<>>
        /\ result.verdict \in {"running", "options"}
        /\ Ended => result = [verdict |-> "options", arg_spec |-> package_spec]

\* C5 witness: 'options' ended with the schema although the supplied
\* options would not pass validation.
C5_Witness ==
    /\ Ended /\ args.state = "options"
    /\ result.verdict = "options"
    /\ result.arg_spec # <<>>
    /\ \E k \in KeySet(args.opts) : ~DictHas(package_spec, k)

\* The desired state supplies an option key that is no category code of
\* the dynamic schema.
UnknownKey == \E k \in KeySet(args.opts) : k \notin KeySet(package_spec)
\* The desired state omits an option the schema marks required.
MissingRequired ==
    \E n \in 1..Len(package_spec) :
        package_spec[n].v.required = 1 /\ package_spec[n].k \notin KeySet(args.opts)
Invalid == UnknownKey \/ (args.state = "present" /\ MissingRequired)

\* C6 as claimed: an unknown option key, or for 'present' a missing required
\* option, makes the run end failed, with no placeOrder, cancel or reload
\* at any point.
C6_InvalidFails ==
    (pc # "start" /\ Invalid) =>
        /\ Count(MutationApis) = 0
        /\ Ended => result.verdict = "failed"

\* C6 amended: the same for the states other than 'options'; for 'options'
\* the run ends with the schema, unvalidated, and also without placeOrder,
\* cancel or reload.
C6_InvalidFailsUnlessOptions ==
    (pc # "start" /\ Invalid) =>
        /\ Count(MutationApis) = 0
        /\ pc \in {"arg_spec", "exit"}
        /\ Ended => result.verdict = IF args.state = "options" THEN "options" ELSE "failed"

\* C6 witness: 'reloaded' with an unknown option key ended failed without
\* the hardware lookup or a reload.
C6_Witness ==
    /\ Ended /\ args.state = "reloaded" /\ UnknownKey
    /\ result.verdict = "failed"
    /\ Count(MutationApis \cup {"list_hardware"}) = 0

\* C7: within one invocation the standard item list is fetched at most once
\* per packageId and the location item list at most once per (packageId,
\* datacenter).
C7_FetchedOnce ==
    /\ Cardinality({i \in CallsOf({"getItems.standard"}) :
                       calls[i].key = <<args.pkgid>>}) <= 1
    /\ Cardinality({i \in CallsOf({"getItems.location"}) :
                       calls[i].key = <<args.pkgid, args.datacenter>>}) <= 1

\* C8: in the dict get_items returns, for the key field 'id' as for
\* 'keyName', the entry of a standard item whose key a location item shares
\* is that location item, whole, and the entry of any other standard item
\* is the standard item itself.
C8_LocationOverrides ==
    pc # "start" =>
        \A key \in {"id", "keyName"} :
            LET std == remote.standard_items
                loc == remote.location_items
                d == IF key = "id" THEN items_by_id ELSE merge_items(key, std, loc)
            IN \A i \in 1..Len(std) :
                   LET s == std[i]
                       over == {j \in 1..Len(loc) : loc[j][key] = s[key]}
                   IN /\ DictHas(d, s[key])
                      /\ IF over = {}
                         THEN DictVal(d, s[key]) = s
                         ELSE \E j \in over : DictVal(d, s[key]) = loc[j]

\* C8 witness: item 3 is resolved to the location record, which differs
\* from the standard record in its category as well as in its price.
C8_Witness ==
    /\ pc # "start"
    /\ DictHas(items_by_id, 3)
    /\ DictVal(items_by_id, 3) = LocPool[2]
    /\ StdPool[3].itemCategory # LocPool[2].itemCategory
    /\ InSeq(StdPool[3], remote.standard_items)

DiskSlotCodes == {"disk" \o d : d \in Digits}

\* C9: in the dict get_item_categories returns, every disk slot code maps
\* to what 'disk0' maps to, whatever items the catalogue has in the slot's
\* own category.
C9_DiskSlotsShareDisk0 ==
    pc # "start" =>
        \A n \in 1..Len(item_cats) :
            item_cats[n].k \in DiskSlotCodes =>
                item_cats[n].v = item_cats_get(item_cats, "disk0")

\* C9 witness: the catalogue has an item in disk1's own category, and disk1
\* lists disk0's choices, without that item.
C9_Witness ==
    /\ pc # "start"
    /\ \E n \in 1..Len(items_by_id) : items_by_id[n].v.itemCategory.id = 5
    /\ DictHas(item_cats, "disk0") /\ DictHas(item_cats, "disk1")
    /\ DictVal(item_cats, "disk1") = Some(<<"HARD_DRIVE_1_00_TB">>)
    /\ DictVal(item_cats, "disk0") = Some(<<"HARD_DRIVE_1_00_TB">>)

\* C10: every category code in the dict get_item_categories returns has a
\* non-empty choice list.
C10_NoEmptyChoices ==
    pc # "start" =>
        \A n \in 1..Len(item_cats) : item_cats[n].v.some /\ item_cats[n].v.val # <<>>

\* C11: the dynamic fields of the schema are exactly the category codes
\* with at least one resolved choice, each with those choices; a field is
\* required as the catalogue says for 'present' and 'options', and not
\* required for 'absent' and 'reloaded'.
C11_SchemaFields ==
    pc # "start" =>
        LET cats == remote.cats
            Code(n) == cats[n].itemCategory.categoryCode
            Resolved(code) == \E m \in 1..Len(item_cats) :
                                 /\ item_cats[m].k = code
                                 /\ item_cats[m].v.some
                                 /\ Len(item_cats[m].v.val) >= 1
        IN /\ KeySet(package_spec) = {Code(n) : n \in {m \in 1..Len(cats) : Resolved(Code(m))}}
           /\ \A n \in 1..Len(cats) :
                  Resolved(Code(n)) =>
                      LET f == DictVal(package_spec, Code(n))
                      IN /\ Some(f.choices) = DictVal(item_cats, Code(n))
                         /\ f.required = IF args.state \in {"present", "options"}
                                         THEN cats[n].isRequired
                                         ELSE 0

\* C11 witness: for 'reloaded' the schema has the field ram, which the
\* catalogue marks required, as not required, and has no field for the
\* category without items.
C11_Witness ==
    /\ pc # "start" /\ args.state = "reloaded"
    /\ DictHas(package_spec, "ram")
    /\ DictVal(package_spec, "ram").required = 0
    /\ \E n \in 1..Len(remote.cats) :
           /\ remote.cats[n].itemCategory.categoryCode = "ram"
           /\ remote.cats[n].isRequired = 1
    /\ DictHas(item_cats, "managed_resource")
    /\ ~DictHas(package_spec, "managed_resource")

\* The order main verified or placed.
Ordered == Count(OrderApis) = 1
TheOrder == calls[Len(calls)].key[1]

\* C12: the price list of a built order has an entry only for a supplied
\* package option whose price id resolves; an option that was not supplied
\* or that resolves to no price contributes no entry, so no entry has an
\* absent id.
C12_OnlyResolvedPrices ==
    Ordered =>
        /\ \A i \in 1..Len(TheOrder.prices) :
               /\ TheOrder.prices[i].id.some
               /\ \E n \in 1..Len(args.opts) : args.opts[n].v = TheOrder.prices[i].name
        /\ Len(TheOrder.prices) <= Len(args.opts)

\* The key names a price may be asked for: those of the catalogue and one
\* that no item has.
KeyNames ==
    {StdPool[i].keyName : i \in 1..Len(StdPool)} \cup
    {LocPool[i].keyName : i \in 1..Len(LocPool)} \cup {"ANYTHING"}

\* The price id the claim expects for a key name: absent when no standard
\* item has the name or the resolved item has no price, else the first
\* price of the location item of that name when there is one, and of the
\* standard item otherwise.
ExpectedPriceId(name) ==
    LET std == remote.standard_items
        loc == remote.location_items
        S == {i \in 1..Len(std) : std[i].keyName = name}
        L == {j \in 1..Len(loc) : loc[j].keyName = name}
    IN IF S = {} THEN {NoneV}
       ELSE IF L # {}
            THEN {IF loc[j].prices = <<>> THEN NoneV ELSE Some(Head(loc[j].prices).id) : j \in L}
            ELSE {IF std[i].prices = <<>> THEN NoneV ELSE Some(Head(std[i].prices).id) : i \in S}

\* C13: get_item_priceid returns absent for a key name no resolved item has
\* and for a resolved item without prices, and otherwise the id of the first
\* price of the resolved item; so for every key name asked of the catalogue
\* of this run, and for every price entry of the order that was built.
C13_FirstPriceOrAbsent ==
    pc # "start" =>
        /\ \A name \in KeyNames :
               get_item_priceid([self |-> sld, calls |-> calls], name,
                                args.pkgid, args.datacenter).ret \in ExpectedPriceId(name)
        /\ Ordered =>
               \A i \in 1..Len(TheOrder.prices) :
                   TheOrder.prices[i].id \in ExpectedPriceId(TheOrder.prices[i].name)

\* C13 witness: the order that was built prices RAM_64_GB with the first of
\* the two prices of the location item, not with the standard price, and
\* has an entry without price id.
C13_Witness ==
    /\ Ordered
    /\ InSeq(StdPool[1], remote.standard_items)
    /\ InSeq(LocPool[1], remote.location_items)
    /\ \E i \in 1..Len(TheOrder.prices) :
           TheOrder.prices[i] = [id |-> Some(101), name |-> "RAM_64_GB"]
    /\ \E i \in 1..Len(TheOrder.prices) : ~TheOrder.prices[i].id.some

\* The desired state passes validation against the schema: no unknown key,
\* no required option missing, every value one of its choices, and a
\* datacenter the API knows.
Valid ==
    /\ ~UnknownKey
    /\ ~MissingRequired
    /\ \A n \in 1..Len(args.opts) :
           InSeq(args.opts[n].v, DictVal(package_spec, args.opts[n].k).choices)
    /\ \E n \in 1..Len(Datacenters) : Datacenters[n].k = args.datacenter
\* main is past the validation of the desired state.
Validated == pc \notin {"start", "arg_spec"}

\* C14 as claimed: in state 'present' the hardware query comes before the
\* validation, which is performed only on the path where the query found
\* no match.
C14_LookupBeforeValidation ==
    (args.state = "present" /\ Validated) => (LookedUp /\ hws = <<>>)

\* C14 amended: in state 'present' the validation comes before the hardware
\* query: the query is issued only for a desired state that passed
\* validation, a desired state that does not pass ends the run failed
\* without a query, and a match found by the query ends the run unchanged.
C14_ValidationBeforeLookup ==
    args.state = "present" =>
        /\ LookedUp => Valid
        /\ (pc # "start" /\ ~Valid) =>
               /\ pc \in {"arg_spec", "exit"}
               /\ Ended => result.verdict = "failed"
        /\ (Ended /\ LookedUp /\ Len(hws) >= 1) => result.verdict = "unchanged"

\* C14 witness: 'present' without the required option ended failed, and the
\* hardware was never queried.
C14_Witness ==
    /\ Ended /\ args.state = "present"
    /\ MissingRequired /\ ~UnknownKey
    /\ result.verdict = "failed"
    /\ Count({"list_hardware"}) = 0

\* C15: when the datacenter lookup of the order builder returns no match or
\* more than one, the order is still built, with an absent location, and
\* still passed to verifyOrder or placeOrder; when it returns exactly one
\* match the order carries that match's id.
C15_LocationAbsentOrUnique ==
    (args.state = "present" /\ Ended /\ LookedUp /\ hws = <<>>) =>
        /\ Count({"getDataCenters"}) = 1
        /\ Ordered
        /\ result.verdict = "changed"
        /\ TheOrder.location = IF Len(location_answer) = 1
                               THEN Some(location_answer[1].id)
                               ELSE NoneV

\* C15 witness: the lookup returned two datacenters and the order was
\* placed with an absent location.
C15_Witness ==
    /\ Ended /\ Ordered
    /\ Len(location_answer) = 2
    /\ calls[Len(calls)].api = "placeOrder"
    /\ TheOrder.location = NoneV
    /\ result.verdict = "changed"

\* C16: in check mode no state-changing remote call is issued, whatever the
\* state and the answer of the hardware lookup: no placeOrder, no cancel,
\* no reload.
C16_CheckModeChangesNothing ==
    check_mode => Count(MutationApis) = 0

====
